---- MODULE Spec2Model ----
(***************************************************************************)
(* A model of the Resizer class of es6/optimizer.js: the constructor, the  *)
(* synchronous body of scaleAndCompress, and the callback chain of         *)
(* processFile (reader 'load' listener, image 'load' listener, the .then   *)
(* callback) as the browser's event loop runs them.                        *)
(*                                                                         *)
(* A drawing surface is [width, height, iw, ih]: the canvas size and the   *)
(* extent (iw, ih) of the picture that sits in its top-left corner.        *)
(* A data URL is represented by its length, which is all the code reads.   *)
(***************************************************************************)
EXTENDS Integers, Sequences, FiniteSets, TLC

\* ---------------------------------------------------------------- bounds
MaxSize == 3        \* maxSize given to the constructor ranges over 1..MaxSize
MaxDim == 8         \* decoded images are 1..MaxDim pixels wide and high
MaxLen == 3         \* data URLs are 1..MaxLen characters long
ConcBound == 3      \* maxSize, image sides and lengths when two invocations overlap

\* the two overlapping invocations of processFile
Invocations == {1, 2}

\* the compression levels the constructor is given; 75 is the usage example's
Compressions == {75, 100}
UsageCompression == 75

\* file.type values, as character sequences (String.prototype.match reads them)
TypePng == <<"i", "m", "a", "g", "e", "/", "p", "n", "g">>
TypeText == <<"t", "e", "x", "t", "/", "p", "l", "a", "i", "n">>
FileTypes == {TypePng, TypeText}

\* JavaScript's Infinity and NaN
Infinity == "Infinity"
NaN == "NaN"

\* the rejection reason of line 108, and the exception a conforming canvas
\* raises when a canvas without area is the source of drawImage
NotAnImage == "The file is not an image."
InvalidStateError == "InvalidStateError"

VARIABLES
    maxSize,      \* this.maxSize
    compression,  \* this.compression
    strictHost,   \* the canvas raises InvalidStateError for an empty source canvas
    callers,      \* invocations the caller issues
    dimBound,     \* largest image side the decoder yields
    lenBound,     \* longest data URL the reader and the encoder yield
    blocked,      \* a listener is stuck in a loop: the event loop runs nothing else
    pc,           \* per invocation: position in the callback chain
    ftype,        \* per invocation: file.type
    orig,         \* per invocation: e.target.result.length
    img,          \* per invocation: the decoded Image
    run,          \* per invocation: what scaleAndCompress(img) did
    gen,          \* per invocation: generatedURL.length
    promise,      \* per invocation: state of the promise processFile returned
    value,        \* per invocation: its resolution value
    reason,       \* per invocation: its rejection reason
    attempted,    \* per invocation: host operations started ("read", "decode", "render")
    again         \* per invocation: scaleAndCompress applied to its own output

vars == <<maxSize, compression, strictHost, callers, dimBound, lenBound, blocked, pc,
          ftype, orig, img, run, gen, promise, value, reason, attempted, again>>

\* ------------------------------------------------------------ arithmetic
Min(a, b) == IF a < b THEN a ELSE b

\* Math.round(a / b) for a >= 0, b > 0: nearest integer, halves upwards
Round(a, b) == (2 * a + b) \div (2 * b)

\* Math.pow(2, n) for a finite n >= 0
RECURSIVE Pow2(_)
Pow2(n) == IF n <= 0 THEN 1 ELSE 2 * Pow2(n - 1)

\* Math.floor(Math.log2(a / b)) for a >= b > 0
RECURSIVE FloorLog2(_, _)
FloorLog2(a, b) == IF 2 * b > a THEN 0 ELSE 1 + FloorLog2(a, 2 * b)

\* file.type.match('image.*'): the unanchored pattern matches when "image" occurs
Match(t) ==
    \E k \in 1..Len(t) :
        k + 4 <= Len(t) /\ SubSeq(t, k, k + 4) = <<"i", "m", "a", "g", "e">>

\* -------------------------------------------------------------- surfaces
\* document.createElement('canvas') followed by the width/height assignment
Surface(w, h) == [width |-> w, height |-> h, iw |-> 0, ih |-> 0]

NoSurface == Surface(0, 0)
NoImage == [width |-> 0, height |-> 0]

\* context.drawImage(img, 0, 0, dw, dh): the image fills the rectangle (dw, dh)
DrawImage(s, dw, dh) ==
    [s EXCEPT !.iw = Min(dw, s.width), !.ih = Min(dh, s.height)]

\* a plausible slip: only the picture, not the whole canvas, is taken as source
DrawSelfPictureOnly(s, dw, dh) ==
    [s EXCEPT !.iw = Min(dw, s.width), !.ih = Min(dh, s.height)]

\* context.drawImage(canvas, 0, 0, dw, dh) on the canvas itself: the whole canvas
\* (width x height) is scaled into the rectangle (dw, dh), the picture with it
DrawSelf(s, dw, dh) ==
    [s EXCEPT !.iw = IF s.width = 0 THEN 0 ELSE (s.iw * dw) \div s.width,
              !.ih = IF s.height = 0 THEN 0 ELSE (s.ih * dh) \div s.height]

\* finalContext.drawImage(canvas, 0, 0, cw, ch, 0, 0, cw, ch)
CopyCorner(src, dst, cw, ch) ==
    [dst EXCEPT !.iw = Min(Min(src.iw, cw), dst.width),
                !.ih = Min(Min(src.ih, ch), dst.height)]

\* a canvas with no area cannot be the source of drawImage on a conforming host
Unusable(s, strict) == strict /\ (s.width = 0 \/ s.height = 0)

\* ------------------------------------------------------- scaleAndCompress
\* a plausible slip: the comparison of line 40 reversed
TargetDimsReversed(im, m) ==
    IF im.width < im.height
    THEN [path |-> "width", cWidth |-> m, cHeight |-> Round(im.height * m, im.width)]
    ELSE [path |-> "height", cWidth |-> Round(im.width * m, im.height), cHeight |-> m]

\* a plausible slip: >= in line 40, so that a square takes the width path
TargetDimsSquareWide(im, m) ==
    IF im.width >= im.height
    THEN [path |-> "width", cWidth |-> m, cHeight |-> Round(im.height * m, im.width)]
    ELSE [path |-> "height", cWidth |-> Round(im.width * m, im.height), cHeight |-> m]

\* lines 39-46: the new dimensions
TargetDims(im, m) ==
    IF im.width > im.height
    THEN [path |-> "width", cWidth |-> m, cHeight |-> Round(im.height * m, im.width)]
    ELSE [path |-> "height", cWidth |-> Round(im.width * m, im.height), cHeight |-> m]

\* line 50: n = Math.floor(Math.log2(img.width / cWidth)); a division by zero
\* gives Infinity, and so do log2 and floor of it
Halvings(im, cWidth) ==
    IF cWidth = 0 THEN Infinity ELSE FloorLog2(im.width, cWidth)

\* lines 70-72: for (i = 0; i < n; ++i) context.drawImage(canvas, 0, 0, w/2, h/2);
\* w and h keep their values. visited lists the picture's size after each step.
RECURSIVE HalvingLoop(_, _, _, _, _, _, _)
HalvingLoop(s, w, h, i, n, visited, strict) ==
    IF i >= n THEN [canvas |-> s, visited |-> visited, threw |-> FALSE]
    ELSE IF Unusable(s, strict) THEN [canvas |-> s, visited |-> visited, threw |-> TRUE]
    ELSE LET s2 == DrawSelf(s, w \div 2, h \div 2)
         IN  HalvingLoop(s2, w, h, i + 1, n, Append(visited, <<s2.iw, s2.ih>>), strict)

\* lines 86-93: the image is copied unscaled
NoScaleRun(im) ==
    LET final == DrawImage(Surface(im.width, im.height), im.width, im.height)
    IN  [branch |-> "noscale", path |-> "none", cWidth |-> im.width,
         cHeight |-> im.height, n |-> 0, w |-> im.width, h |-> im.height,
         visited |-> << <<final.iw, final.ih>> >>, canvas |-> NoSurface,
         sized |-> TRUE, final |-> final, outcome |-> "resolved", error |-> "none"]

\* lines 50-72 with cWidth = 0: n and n_pow are Infinity, w = 0 * Infinity is NaN,
\* h is Infinity, the canvas gets no area, and i < Infinity never ends the loop
DivergedRun(c) ==
    [branch |-> "scale", path |-> c.path, cWidth |-> c.cWidth, cHeight |-> c.cHeight,
     n |-> Infinity, w |-> NaN, h |-> Infinity, visited |-> <<>>,
     canvas |-> Surface(0, 0), sized |-> FALSE, final |-> NoSurface,
     outcome |-> "diverged", error |-> "none"]

\* lines 50-85 with a finite n
ScaleRun(im, c, strict) ==
    LET n == Halvings(im, c.cWidth)
        n_pow == Pow2(n)
        w == c.cWidth * n_pow
        h == c.cHeight * n_pow
        canvas0 == DrawImage(Surface(w, h), w, h)
        loop == HalvingLoop(canvas0, w, h, 0, n, << <<canvas0.iw, canvas0.ih>> >>, strict)
        sized == Surface(c.cWidth, c.cHeight)
        base == [branch |-> "scale", path |-> c.path, cWidth |-> c.cWidth,
                 cHeight |-> c.cHeight, n |-> n, w |-> w, h |-> h,
                 visited |-> loop.visited, canvas |-> loop.canvas,
                 sized |-> FALSE, final |-> NoSurface,
                 outcome |-> "rejected", error |-> InvalidStateError]
    IN  IF loop.threw THEN base
        ELSE IF Unusable(loop.canvas, strict)
        THEN [base EXCEPT !.sized = TRUE, !.final = sized]
        ELSE [base EXCEPT !.sized = TRUE,
                          !.final = CopyCorner(loop.canvas, sized, c.cWidth, c.cHeight),
                          !.outcome = "resolved", !.error = "none"]

\* a plausible slip: && in line 36
ScaleAndCompressBothExceed(im, m, strict) ==
    IF im.width > m /\ im.height > m
    THEN LET c == TargetDims(im, m)
         IN  IF c.cWidth = 0 THEN DivergedRun(c) ELSE ScaleRun(im, c, strict)
    ELSE NoScaleRun(im)

\* lines 28-98, up to the encoding of line 96
ScaleAndCompress(im, m, strict) ==
    IF im.width > m \/ im.height > m
    THEN LET c == TargetDims(im, m)
         IN  IF c.cWidth = 0 THEN DivergedRun(c) ELSE ScaleRun(im, c, strict)
    ELSE NoScaleRun(im)

NoRun ==
    [branch |-> "none", path |-> "none", cWidth |-> 0, cHeight |-> 0, n |-> 0,
     w |-> 0, h |-> 0, visited |-> <<>>, canvas |-> NoSurface, sized |-> FALSE,
     final |-> NoSurface, outcome |-> "none", error |-> "none"]

\* line 96: final.toDataURL('image/jpeg', this.compression / 100); the quality is
\* the fraction <<compression, 100>>, the length is the encoder's
ToDataURL(final, comp, len) ==
    [kind |-> "generated", mime |-> "image/jpeg", quality |-> <<comp, 100>>,
     width |-> final.width, height |-> final.height, len |-> len]

NoURL == [kind |-> "none", mime |-> "none", quality |-> <<0, 100>>,
          width |-> 0, height |-> 0, len |-> 0]

\* e.target.result: the reader's data URL of the file
OriginalURL(len) ==
    [kind |-> "original", mime |-> "file", quality |-> <<0, 100>>,
     width |-> 0, height |-> 0, len |-> len]

\* a plausible slip: <= in line 130
SmallerOrEqual(generatedURL, original) ==
    IF generatedURL.len <= original.len THEN generatedURL ELSE original

\* lines 130-134
Smaller(generatedURL, original) ==
    IF generatedURL.len < original.len THEN generatedURL ELSE original

\* ------------------------------------------------------------ processFile
\* lines 18-21: the constructor stores its arguments; nothing else is set up
Constructed ==
    /\ blocked = FALSE
    /\ pc = [i \in Invocations |-> "idle"]
    /\ ftype = [i \in Invocations |-> <<>>]
    /\ orig = [i \in Invocations |-> NoURL]
    /\ img = [i \in Invocations |-> NoImage]
    /\ run = [i \in Invocations |-> NoRun]
    /\ gen = [i \in Invocations |-> NoURL]
    /\ promise = [i \in Invocations |-> "none"]
    /\ value = [i \in Invocations |-> NoURL]
    /\ reason = [i \in Invocations |-> "none"]
    /\ attempted = [i \in Invocations |-> {}]
    /\ again = [i \in Invocations |-> NoRun]

\* one invocation at a time, over the full input ranges
Init ==
    /\ maxSize \in 1..MaxSize
    /\ compression \in Compressions
    /\ strictHost \in BOOLEAN
    /\ callers = {1}
    /\ dimBound = MaxDim
    /\ lenBound = MaxLen
    /\ Constructed

\* two overlapping invocations on one Resizer in a conforming browser
InitConc ==
    /\ maxSize \in 1..ConcBound
    /\ compression = UsageCompression
    /\ strictHost = TRUE
    /\ callers = Invocations
    /\ dimBound = ConcBound
    /\ lenBound = ConcBound
    /\ Constructed

\* lines 105-109 and 111-146: the executor of processFile. reject() does not
\* return: the reader is set up and started whatever the type is.
ProcessFile(i, t) ==
    /\ ~blocked
    /\ i \in callers
    /\ pc[i] = "idle"
    /\ ftype' = [ftype EXCEPT ![i] = t]
    /\ promise' = [promise EXCEPT ![i] = IF Match(t) THEN "pending" ELSE "rejected"]
    /\ reason' = [reason EXCEPT ![i] = IF Match(t) THEN "none" ELSE NotAnImage]
    /\ attempted' = [attempted EXCEPT ![i] = @ \cup {"read"}]
    /\ pc' = [pc EXCEPT ![i] = "reading"]
    /\ UNCHANGED <<maxSize, compression, strictHost, callers, dimBound, lenBound,
                   blocked, orig, img, run, gen, value, again>>

\* lines 115-142: the reader's 'load' listener creates the Image and sets its src
ReaderLoad(i, len) ==
    /\ ~blocked
    /\ pc[i] = "reading"
    /\ orig' = [orig EXCEPT ![i] = OriginalURL(len)]
    /\ attempted' = [attempted EXCEPT ![i] = @ \cup {"decode"}]
    /\ pc' = [pc EXCEPT ![i] = "decoding"]
    /\ UNCHANGED <<maxSize, compression, strictHost, callers, dimBound, lenBound,
                   blocked, ftype, img, run, gen, promise, value, reason, again>>

\* lines 112-146: the reader fails; no 'error' listener was added
ReaderError(i) ==
    /\ ~blocked
    /\ pc[i] = "reading"
    /\ pc' = [pc EXCEPT ![i] = "readFailed"]
    /\ UNCHANGED <<maxSize, compression, strictHost, callers, dimBound, lenBound,
                   blocked, ftype, orig, img, run, gen, promise, value, reason,
                   attempted, again>>

\* lines 120-137 with 28-98: the image's 'load' listener runs scaleAndCompress to
\* its end (or never leaves its loop); the .then callback is queued. len is the
\* length toDataURL returns; it is fixed when line 96 is not reached.
ImageLoad(i, w, h, len) ==
    /\ ~blocked
    /\ pc[i] = "decoding"
    /\ LET im == [width |-> w, height |-> h]
           r == ScaleAndCompress(im, maxSize, strictHost)
       IN  /\ r.outcome # "resolved" => len = 1
           /\ img' = [img EXCEPT ![i] = im]
           /\ run' = [run EXCEPT ![i] = r]
           /\ gen' = [gen EXCEPT ![i] =
                        IF r.outcome = "resolved"
                        THEN ToDataURL(r.final, compression, len) ELSE NoURL]
           /\ blocked' = (r.outcome = "diverged")
           /\ pc' = [pc EXCEPT ![i] = IF r.outcome = "diverged" THEN "hung" ELSE "then"]
    /\ attempted' = [attempted EXCEPT ![i] = @ \cup {"render"}]
    /\ UNCHANGED <<maxSize, compression, strictHost, callers, dimBound, lenBound,
                   ftype, orig, promise, value, reason, again>>

\* lines 117-141: the image fails to decode; no 'error' listener was added
ImageError(i) ==
    /\ ~blocked
    /\ pc[i] = "decoding"
    /\ pc' = [pc EXCEPT ![i] = "decodeFailed"]
    /\ UNCHANGED <<maxSize, compression, strictHost, callers, dimBound, lenBound,
                   blocked, ftype, orig, img, run, gen, promise, value, reason,
                   attempted, again>>

\* lines 121-136: the .then callback picks the URL and the outer promise takes it,
\* unless reject() of line 108 has settled that promise already
ThenCallback(i) ==
    /\ ~blocked
    /\ pc[i] = "then"
    /\ run[i].outcome = "resolved"
    /\ IF promise[i] = "pending"
       THEN /\ promise' = [promise EXCEPT ![i] = "resolved"]
            /\ value' = [value EXCEPT ![i] = Smaller(gen[i], orig[i])]
       ELSE UNCHANGED <<promise, value>>
    /\ pc' = [pc EXCEPT ![i] = "done"]
    /\ UNCHANGED <<maxSize, compression, strictHost, callers, dimBound, lenBound,
                   blocked, ftype, orig, img, run, gen, reason, attempted, again>>

\* lines 29, 121-123: an exception in scaleAndCompress rejects its promise, the
\* .then callback is skipped and the rejection reaches the outer promise
ThenSkipped(i) ==
    /\ ~blocked
    /\ pc[i] = "then"
    /\ run[i].outcome = "rejected"
    /\ IF promise[i] = "pending"
       THEN /\ promise' = [promise EXCEPT ![i] = "rejected"]
            /\ reason' = [reason EXCEPT ![i] = run[i].error]
       ELSE UNCHANGED <<promise, reason>>
    /\ pc' = [pc EXCEPT ![i] = "done"]
    /\ UNCHANGED <<maxSize, compression, strictHost, callers, dimBound, lenBound,
                   blocked, ftype, orig, img, run, gen, value, attempted, again>>

\* lines 28-98 once more: the caller hands the image that scaleAndCompress
\* produced (an image of the final surface's size) to scaleAndCompress
Recompress(i) ==
    /\ ~blocked
    /\ pc[i] = "done"
    /\ run[i].outcome = "resolved"
    /\ run[i].final.width > 0
    /\ run[i].final.height > 0
    /\ LET out == [width |-> run[i].final.width,
                   height |-> run[i].final.height]
           r == ScaleAndCompress(out, maxSize, strictHost)
       IN  /\ again' = [again EXCEPT ![i] = r]
           /\ blocked' = (r.outcome = "diverged")
    /\ pc' = [pc EXCEPT ![i] = "recompressed"]
    /\ UNCHANGED <<maxSize, compression, strictHost, callers, dimBound, lenBound,
                   ftype, orig, img, run, gen, promise, value, reason, attempted>>

Next ==
    \E i \in Invocations :
        \/ \E t \in FileTypes : ProcessFile(i, t)
        \/ \E len \in 1..lenBound : ReaderLoad(i, len)
        \/ ReaderError(i)
        \/ \E w \in 1..dimBound, h \in 1..dimBound, len \in 1..lenBound :
               ImageLoad(i, w, h, len)
        \/ ImageError(i)
        \/ ThenCallback(i)
        \/ ThenSkipped(i)
        \/ Recompress(i)

Spec == Init /\ [][Next]_vars

SpecConc == InitConc /\ [][Next]_vars

\* ------------------------------------------------------------- properties
\* scaleAndCompress has run on img[i]
Rendered(i) == "render" \in attempted[i]

\* the image of invocation i exceeds maxSize on some side
Oversized(i) == img[i].width > maxSize \/ img[i].height > maxSize

Abs(x) == IF x < 0 THEN -x ELSE x

\* c is Math.round(s * m / l): c - 1/2 <= s * m / l < c + 1/2
IsRounded(c, s, m, l) == 2 * c * l <= 2 * s * m + l /\ 2 * s * m + l < 2 * c * l + 2 * l

\* C1: for an image with a side above maxSize, the final surface has its longer
\* side equal to maxSize, its shorter side within one pixel of
\* shorter * maxSize / longer, and so both sides at most maxSize.
C1_ScaledOutputFits ==
    \A i \in Invocations :
        (Rendered(i) /\ Oversized(i) /\ run[i].sized) =>
            LET f == run[i].final
                im == img[i]
            IN  /\ im.width >= im.height =>
                     /\ f.width = maxSize
                     /\ Abs(f.height * im.width - im.height * maxSize) <= im.width
                /\ im.height >= im.width =>
                     /\ f.height = maxSize
                     /\ Abs(f.width * im.height - im.width * maxSize) <= im.height
                /\ f.width <= maxSize
                /\ f.height <= maxSize

\* an oversized wide image was scaled and its height had to be rounded
C1_Witness ==
    \E i \in Invocations :
        /\ Rendered(i) /\ Oversized(i) /\ run[i].outcome = "resolved"
        /\ img[i].width > img[i].height
        /\ run[i].final.width = maxSize
        /\ run[i].final.height * img[i].width # img[i].height * maxSize

\* C2: processFile resolves with the shorter of the generated and the original
\* data URL: never longer than the shorter one, the generated one only when it
\* is strictly shorter, the original one on equal lengths.
C2_ShorterReturned ==
    \A i \in Invocations :
        promise[i] = "resolved" =>
            /\ value[i] \in {gen[i], orig[i]}
            /\ value[i].len <= Min(gen[i].len, orig[i].len)
            /\ value[i].kind = "generated" => gen[i].len < orig[i].len
            /\ gen[i].len = orig[i].len => value[i] = orig[i]

\* a resolution on equal lengths
C2_Witness ==
    \E i \in Invocations :
        /\ promise[i] = "resolved"
        /\ gen[i].len = orig[i].len
        /\ value[i].kind = "original"

\* C3: for a file whose type is not an image type, processFile fails with the
\* type error at once and attempts no read, no decode and no render.
C3_NonImageStopsPipeline ==
    \A i \in Invocations :
        (pc[i] # "idle" /\ ~Match(ftype[i])) =>
            /\ promise[i] = "rejected"
            /\ reason[i] = NotAnImage
            /\ attempted[i] = {}

\* C4: when the reader or the decoder signals an error instead of 'load', the
\* promise of processFile settles as a failure.
C4_HostErrorsSurface ==
    \A i \in Invocations :
        pc[i] \in {"readFailed", "decodeFailed"} => promise[i] = "rejected"

\* C5: scaleAndCompress leaves its loop and resolves for every image with
\* positive sides; it neither rejects nor runs forever.
C5_ScaleAndCompressResolves ==
    \A i \in Invocations :
        Rendered(i) => run[i].outcome = "resolved"

\* what invocation i settles with when it runs alone on the inputs it was given
SoloPromise(i) ==
    IF ~Match(ftype[i]) THEN "rejected"
    ELSE IF ScaleAndCompress(img[i], maxSize, strictHost).outcome = "resolved"
    THEN "resolved" ELSE "rejected"

\* C6: overlapping invocations do not interfere: whatever the other invocation
\* does, an invocation settles as it would alone, and is never held up while a
\* callback of its own is due.
C6_InvocationsIndependent ==
    \A i \in Invocations :
        /\ pc[i] \in {"done", "recompressed"} =>
             /\ promise[i] = SoloPromise(i)
             /\ promise[i] = "resolved" => value[i] = Smaller(gen[i], orig[i])
        /\ pc[i] \in {"reading", "decoding", "then"} => ~blocked

\* C7: an image within maxSize takes the no-scale branch and keeps its size;
\* every output is within maxSize, so scaleAndCompress on its own output takes
\* the no-scale branch and leaves the size unchanged.
C7_OutputIsFixedPoint ==
    \A i \in Invocations :
        /\ (Rendered(i) /\ ~Oversized(i)) =>
             /\ run[i].branch = "noscale"
             /\ run[i].outcome = "resolved"
             /\ run[i].final.width = img[i].width
             /\ run[i].final.height = img[i].height
        /\ (Rendered(i) /\ run[i].outcome = "resolved") =>
             /\ run[i].final.width <= maxSize
             /\ run[i].final.height <= maxSize
        /\ pc[i] = "recompressed" =>
             /\ again[i].branch = "noscale"
             /\ again[i].outcome = "resolved"
             /\ again[i].final.width = run[i].final.width
             /\ again[i].final.height = run[i].final.height

\* a scaled output was given to scaleAndCompress again
C7_Witness ==
    \E i \in Invocations :
        /\ pc[i] = "recompressed"
        /\ run[i].branch = "scale"
        /\ run[i].final.width < img[i].width
        /\ again[i].branch = "noscale"

\* C8: in the scaling branch the picture is (cWidth * 2^n, cHeight * 2^n) after
\* the first render and half of its previous size after each of the n halving
\* steps; after the n-th it fills exactly the top-left (cWidth, cHeight)
\* rectangle of the working surface, which is what the final surface receives.
C8_HalvingReachesTarget ==
    \A i \in Invocations :
        (Rendered(i) /\ run[i].branch = "scale" /\ run[i].outcome = "resolved") =>
            LET r == run[i]
            IN  /\ Len(r.visited) = r.n + 1
                /\ \A k \in 0..r.n :
                     r.visited[k + 1] =
                         <<r.cWidth * Pow2(r.n - k), r.cHeight * Pow2(r.n - k)>>
                /\ r.canvas.iw = r.cWidth
                /\ r.canvas.ih = r.cHeight
                /\ r.final.width = r.cWidth
                /\ r.final.height = r.cHeight
                /\ r.final.iw = r.cWidth
                /\ r.final.ih = r.cHeight

\* a run with at least two halving steps
C8_Witness ==
    \E i \in Invocations :
        /\ Rendered(i) /\ run[i].branch = "scale" /\ run[i].outcome = "resolved"
        /\ run[i].n >= 2
        /\ run[i].cHeight > 0
        /\ Len(run[i].visited) = run[i].n + 1

\* C9: in the scaling branch the first render never upscales: the working
\* surface (w, h) is no larger than the image in either dimension.
C9_NeverUpscales ==
    \A i \in Invocations :
        (Rendered(i) /\ run[i].branch = "scale" /\ run[i].outcome # "diverged") =>
            /\ run[i].w <= img[i].width
            /\ run[i].h <= img[i].height

\* C10 as stated: in the scaling branch exactly one of cWidth = maxSize and
\* cHeight = maxSize holds, and a square image takes the width path.
C10_ExactlyOneSideClamped ==
    \A i \in Invocations :
        (Rendered(i) /\ run[i].branch = "scale") =>
            /\ (run[i].cWidth = maxSize) # (run[i].cHeight = maxSize)
            /\ img[i].width = img[i].height => run[i].path = "width"

\* C10 amended: in the scaling branch at least one of cWidth = maxSize and
\* cHeight = maxSize holds (both for a square image, and whenever the shorter
\* side rounds up to maxSize): the longer side is clamped to maxSize, the shorter
\* side is round(shorter * maxSize / longer), and a square image takes the
\* height path.
C10_LongerSideClamped ==
    \A i \in Invocations :
        (Rendered(i) /\ run[i].branch = "scale") =>
            LET r == run[i]
                im == img[i]
            IN  /\ r.cWidth = maxSize \/ r.cHeight = maxSize
                /\ im.width > im.height =>
                     /\ r.path = "width"
                     /\ r.cWidth = maxSize
                     /\ IsRounded(r.cHeight, im.height, maxSize, im.width)
                /\ im.width < im.height =>
                     /\ r.path = "height"
                     /\ r.cHeight = maxSize
                     /\ IsRounded(r.cWidth, im.width, maxSize, im.height)
                /\ im.width = im.height =>
                     /\ r.path = "height"
                     /\ r.cWidth = maxSize
                     /\ r.cHeight = maxSize

\* a square image was scaled: both target sides are maxSize
C10_Witness ==
    \E i \in Invocations :
        /\ Rendered(i) /\ run[i].branch = "scale"
        /\ img[i].width = img[i].height
        /\ run[i].cWidth = maxSize /\ run[i].cHeight = maxSize

====
